---- MODULE Spec2Model ----
(***************************************************************************)
(* The measurement engine of src/benchmark.cc: the per-worker State        *)
(* machine (KeepRunning and the functions it dispatches to), the           *)
(* SharedState of one instance, the FastClock, and the two ways the        *)
(* workers of an instance are driven:                                      *)
(*   Spec      Benchmark::RunInstance exactly as written (a family with a  *)
(*             thread-count axis runs no worker; one without runs its      *)
(*             single worker inline);                                      *)
(*   SpecPool  the T workers of an instance each running State::Run on a   *)
(*             thread of their own, the completion RunInstance leaves as   *)
(*             a TODO (pool->Add / pool->JoinAll).                         *)
(* Times are integers in microseconds.                                     *)
(***************************************************************************)
EXTENDS Integers, Sequences, FiniteSets

\* ------------------------------------------------------------ bounds
MaxThreads == 2
MaxReps == 3
MaxMinIters == 2
MaxTicks == 3
IterCap == 2
MaxFamilies == 2
MaxSlots == 3
MaxRegistrySize == 5
MaxPower == 10

\* ------------------------------------------------- program constants
\* FinishInterval: an interval of 5 seconds or more is never doubled.
kMaxIntervalMicros == 5000000

\* The granularity at which the model lets the time sources advance.
TickMicros == kMaxIntervalMicros
\* walltime::Now() is time since the epoch; process CPU time starts near 0.
WallEpoch == 2 * kMaxIntervalMicros

\* FLAGS_benchmark_min_time, in microseconds.
MinTimeChoices == {kMaxIntervalMicros}
\* FLAGS_benchmark_max_iters.
MaxItersChoices == {MaxMinIters + 1}

\* enum State::EState
STATE_INITIAL == "STATE_INITIAL"
STATE_STARTING == "STATE_STARTING"
STATE_RUNNING == "STATE_RUNNING"
STATE_STOPPING == "STATE_STOPPING"
STATE_STOPPED == "STATE_STOPPED"

\* enum FastClock::Type
REAL_TIME == "REAL_TIME"
CPU_TIME == "CPU_TIME"

VARIABLES
  FLAGS,          \* benchmark_min_iters, benchmark_max_iters, benchmark_min_time, benchmark_repetitions, benchmark_filter
  instance,       \* Benchmark::Instance: threads, multithreaded (thread_counts_ non-empty)
  uses_real_time, \* whether the user routine calls UseRealTime() before its loop
  wall,           \* walltime::Now()
  cpu,            \* MyCPUUsage() + ChildrenCPUUsage()
  use_real_time,  \* the global set by UseRealTime()
  clock,          \* FastClock: type_, approx_time_
  shared,         \* State::SharedState: starting, stopping, threads, runs
  th,             \* one State per worker
  pc,             \* where each worker's State::Run is
  bodies,         \* per worker: true returns of KeepRunning since its interval's start, while it measures
  ri,             \* RunInstance: index of the runner the "run them all" loop is at
  reported,       \* whether ReportRuns was called, and the vector it was given
  aborted,        \* a CHECK failed
  families,       \* the registry: Benchmark* per slot, NULL for a deleted family
  fam,            \* the Benchmark objects: name_, registration_index_, rangeX_, rangeY_, thread_counts_
  spec,           \* the filter expression RunMatchingBenchmarks / FindBenchmarks is given
  benchmarks,     \* the vector of Instance FindBenchmarks fills
  bi,             \* RunMatchingBenchmarks: index of the instance its loop is at
  hpc,            \* where RunSpecifiedBenchmarks / RunMatchingBenchmarks is
  rp,             \* the calls the BenchmarkReporter has received, in order
  thread_stats,   \* the ThreadStats the worker's thread_stats_key points to
  ar              \* one call of AddRange: its arguments and the vector it filled

\* The variables RunInstance and the workers of an instance leave alone.
outerVars == <<families, fam, spec, benchmarks, bi, hpc, ar>>

vars == <<FLAGS, instance, uses_real_time, wall, cpu, use_real_time, clock,
          shared, th, pc, bodies, ri, reported, aborted,
          families, fam, spec, benchmarks, bi, hpc, rp, thread_stats, ar>>

Workers == 0 .. (instance.threads - 1)

\* ------------------------------------------------------------ FastClock

\* FastClock::NowMicros
NowMicros(type) == IF type = REAL_TIME THEN wall ELSE cpu

\* FastClock::HasReached
HasReached(when_micros) == clock.approx_time_ >= when_micros

\* FastClock::InitType
InitType(type) == [type_ |-> type, approx_time_ |-> NowMicros(type)]

\* FastClock::BGThread, one round of its loop: approx_time_ = NowMicros(),
\* with the time sources at wall1 and cpu1.
BGThread(ck, wall1, cpu1) ==
  [ck EXCEPT !.approx_time_ = IF ck.type_ = REAL_TIME THEN wall1 ELSE cpu1]

\* The time sources advance by one step of the model's granularity: wall time
\* always, process CPU time when the process is on a CPU. The background
\* thread refreshes approx_time_ every millisecond, which is within the step.
Tick ==
  /\ ~aborted
  /\ ~reported.called
  /\ wall < WallEpoch + MaxTicks * TickMicros
  /\ \E cpu1 \in {cpu, cpu + TickMicros} :
        /\ wall' = wall + TickMicros
        /\ cpu' = cpu1
        /\ clock' = BGThread(clock, wall + TickMicros, cpu1)
  /\ UNCHANGED <<FLAGS, instance, uses_real_time, use_real_time,
                 shared, th, pc, bodies, ri, reported, aborted>>
  /\ UNCHANGED <<outerVars, rp, thread_stats>>

\* ---------------------------------------------------------------- State

\* Benchmark::ThreadStats::Reset (and the constructor, which calls it)
ThreadStatsReset == [bytes_processed |-> 0, items_processed |-> 0]

\* Benchmark::ThreadStats::Add
ThreadStatsAdd(stats, other) ==
  [ bytes_processed |-> stats.bytes_processed + other.bytes_processed,
    items_processed |-> stats.items_processed + other.items_processed ]

\* State::State
NewState(flags) ==
  [ state_ |-> STATE_INITIAL,
    iterations_ |-> 0,
    start_cpu_ |-> 0,
    start_time_ |-> 0,
    stop_time_micros_ |-> 0,
    start_pause_ |-> 0,
    pause_time_ |-> 0,
    total_iterations_ |-> 0,
    is_continuation_ |-> FALSE,
    interval_micros_ |-> flags.benchmark_min_time \div flags.benchmark_repetitions ]

\* State::SharedState::SharedState
NewSharedState(t) ==
  [ starting |-> 0, stopping |-> 0, threads |-> t, stats |-> ThreadStatsReset,
    runs |-> <<>>, label |-> "" ]

\* walltime::Now() and the times taken from it (start_time_, start_pause_,
\* pause_time_) are in seconds; the model holds them in microseconds.
MicrosPerSecond == 1000000

\* KeepRunning: stop_time_micros_ + pause_time_ as HasReached receives it.
\* The sum adds seconds to microseconds and is cut to an int64_t.
Deadline(s) == s.stop_time_micros_ + (s.pause_time_ \div MicrosPerSecond)

\* NewInterval taking every interval for a continuation: only the deadline is
\* set.
NewInterval_AlwaysContinues(s, ck) ==
  [s EXCEPT !.stop_time_micros_ = NowMicros(ck.type_) + s.interval_micros_]

\* State::NewInterval, on the State record s, with the clock as it is now.
NewInterval(s, ck) ==
  LET t == [s EXCEPT !.stop_time_micros_ = NowMicros(ck.type_) + s.interval_micros_]
  IN IF ~s.is_continuation_
       THEN [t EXCEPT !.iterations_ = 0, !.pause_time_ = 0,
                      !.start_cpu_ = cpu, !.start_time_ = wall]
       ELSE t

\* RunAnotherInterval without the test against benchmark_max_iters.
RunAnotherInterval_NoMaxIters(s, runs) ==
  IF s.total_iterations_ < FLAGS.benchmark_min_iters THEN TRUE
  ELSE IF Len(runs) >= FLAGS.benchmark_repetitions THEN FALSE
  ELSE TRUE

\* State::RunAnotherInterval, for the State record s and the shared runs.
RunAnotherInterval(s, runs) ==
  IF s.total_iterations_ < FLAGS.benchmark_min_iters THEN TRUE
  ELSE IF s.total_iterations_ > FLAGS.benchmark_max_iters THEN FALSE
  ELSE IF Len(runs) >= FLAGS.benchmark_repetitions THEN FALSE
  ELSE TRUE

\* What a KeepRunning call leaves behind: the value it returns decides whether
\* the routine's loop runs its body again or is left.
Return(w, value) ==
  pc' = [pc EXCEPT ![w] = IF value THEN "loop" ELSE "exited"]

\* StartRunning with clock_->InitType called by every starter.
StartRunning_EveryStarterInits(w) ==
  LET starting1 == shared.starting + 1
      ck == InitType(IF use_real_time THEN REAL_TIME ELSE CPU_TIME)
      s == [th[w] EXCEPT !.state_ = STATE_RUNNING, !.is_continuation_ = FALSE]
  IN IF ~(shared.starting < shared.threads)
       THEN /\ aborted' = TRUE
            /\ UNCHANGED <<clock, shared, th, pc, bodies>>
       ELSE /\ shared' = [shared EXCEPT !.starting = starting1]
            /\ clock' = ck
            /\ th' = [th EXCEPT ![w] = NewInterval(s, ck)]
            /\ bodies' = [bodies EXCEPT ![w] = 1]
            /\ Return(w, TRUE)
            /\ UNCHANGED aborted

\* State::StartRunning
StartRunning(w) ==
  LET starting1 == shared.starting + 1
      last == (starting1 = shared.threads)
      ck == IF last
              THEN InitType(IF use_real_time THEN REAL_TIME ELSE CPU_TIME)
              ELSE clock
      s == [th[w] EXCEPT !.state_ = STATE_RUNNING, !.is_continuation_ = FALSE]
  IN IF ~(shared.starting < shared.threads)
       THEN /\ aborted' = TRUE
            /\ UNCHANGED <<clock, shared, th, pc, bodies>>
       ELSE /\ shared' = [shared EXCEPT !.starting = starting1]
            /\ clock' = ck
            /\ th' = [th EXCEPT ![w] = NewInterval(s, ck)]
            /\ bodies' = [bodies EXCEPT ![w] = 1]
            /\ Return(w, TRUE)
            /\ UNCHANGED aborted

\* MaybeStop returning false without the assignment state_ = STATE_STOPPED.
MaybeStop_ForgetsStopped(w) ==
  IF shared.stopping < shared.threads
    THEN /\ Return(w, TRUE)
         /\ UNCHANGED <<clock, shared, th, bodies, aborted>>
    ELSE /\ Return(w, FALSE)
         /\ UNCHANGED <<clock, shared, th, bodies, aborted>>

\* State::MaybeStop
MaybeStop(w) ==
  IF shared.stopping < shared.threads
    THEN IF th[w].state_ # STATE_STOPPING
           THEN /\ aborted' = TRUE
                /\ UNCHANGED <<clock, shared, th, pc, bodies>>
           ELSE /\ Return(w, TRUE)
                /\ UNCHANGED <<clock, shared, th, bodies, aborted>>
    ELSE /\ th' = [th EXCEPT ![w].state_ = STATE_STOPPED]
         /\ Return(w, FALSE)
         /\ UNCHANGED <<clock, shared, bodies, aborted>>

\* struct BenchmarkRunData as FinishInterval fills it. true_returns is not a
\* field of the source: it records how many times KeepRunning had returned true
\* to the routine in the interval when the interval was closed.
RunData(w, s, accumulated_time, total_overhead) ==
  [ thread_index |-> w,
    iterations |-> s.iterations_,
    real_accumulated_time |-> accumulated_time - (s.pause_time_ + total_overhead),
    cpu_accumulated_time |-> cpu - s.start_cpu_,
    true_returns |-> bodies[w] ]

\* StopDecision with ++shared_->stopping outside the if (!keep_going) block.
StopDecision_CountsEveryClose(another, stopping, threads) ==
  IF another
    THEN [stopping |-> stopping + 1, state_ |-> STATE_RUNNING, keep_going |-> TRUE]
    ELSE IF stopping + 1 < threads
      THEN [stopping |-> stopping + 1, state_ |-> STATE_STOPPING, keep_going |-> TRUE]
      ELSE [stopping |-> stopping + 1, state_ |-> STATE_STOPPED, keep_going |-> FALSE]

\* StopDecision with keep_going left true for the last worker to stop.
StopDecision_LastStopperGoesOn(another, stopping, threads) ==
  IF another
    THEN [stopping |-> stopping, state_ |-> STATE_RUNNING, keep_going |-> TRUE]
    ELSE IF stopping + 1 < threads
      THEN [stopping |-> stopping + 1, state_ |-> STATE_STOPPING, keep_going |-> TRUE]
      ELSE [stopping |-> stopping + 1, state_ |-> STATE_STOPPED, keep_going |-> TRUE]

\* StopDecision without the keep_going = true of the first workers to stop.
StopDecision_FirstStopperLeaves(another, stopping, threads) ==
  IF another
    THEN [stopping |-> stopping, state_ |-> STATE_RUNNING, keep_going |-> TRUE]
    ELSE IF stopping + 1 < threads
      THEN [stopping |-> stopping + 1, state_ |-> STATE_STOPPING, keep_going |-> FALSE]
      ELSE [stopping |-> stopping + 1, state_ |-> STATE_STOPPED, keep_going |-> FALSE]

\* State::FinishInterval, lines 1067-1077, under the mutex: what a worker that
\* has closed an interval does with RunAnotherInterval's answer.
StopDecision(another, stopping, threads) ==
  IF another
    THEN [stopping |-> stopping, state_ |-> STATE_RUNNING, keep_going |-> TRUE]
    ELSE IF stopping + 1 < threads
      THEN \* other threads are still running: go on, without timing
           [stopping |-> stopping + 1, state_ |-> STATE_STOPPING, keep_going |-> TRUE]
      ELSE [stopping |-> stopping + 1, state_ |-> STATE_STOPPED, keep_going |-> FALSE]

\* State::FinishInterval
FinishInterval(w) ==
  LET s == th[w] IN
  IF /\ s.iterations_ < FLAGS.benchmark_min_iters \div FLAGS.benchmark_repetitions
     /\ s.interval_micros_ < kMaxIntervalMicros
    THEN \* the interval was too short: try again for twice as long
         /\ th' = [th EXCEPT ![w] =
                     NewInterval([s EXCEPT !.interval_micros_ = 2 * @,
                                           !.is_continuation_ = FALSE], clock)]
         /\ bodies' = [bodies EXCEPT ![w] = 1]
         /\ Return(w, TRUE)
         /\ UNCHANGED <<clock, shared, aborted>>
    ELSE
      LET accumulated_time == wall - s.start_time_
          total_overhead == 0
          data == RunData(w, s, accumulated_time, total_overhead)
          s1 == [s EXCEPT !.total_iterations_ = @ + s.iterations_]
          runs1 == IF s.is_continuation_
                     THEN [shared.runs EXCEPT ![Len(shared.runs)] = data]
                     ELSE Append(shared.runs, data)
          d == StopDecision(RunAnotherInterval(s1, runs1), shared.stopping,
                            shared.threads)
          s2 == [s1 EXCEPT !.state_ = d.state_]
      IN IF \/ ~(s.pause_time_ < accumulated_time)
            \/ ~(s.pause_time_ + total_overhead < accumulated_time)
            \/ (s.is_continuation_ /\ shared.runs = <<>>)
           THEN /\ aborted' = TRUE
                /\ UNCHANGED <<clock, shared, th, pc, bodies>>
           ELSE /\ shared' = [shared EXCEPT !.runs = runs1, !.stopping = d.stopping]
                /\ th' = [th EXCEPT ![w] =
                            IF s2.state_ = STATE_RUNNING
                              THEN NewInterval([s2 EXCEPT !.is_continuation_ = TRUE], clock)
                              ELSE s2]
                /\ bodies' = [bodies EXCEPT ![w] =
                                IF s2.state_ = STATE_RUNNING THEN @ + 1 ELSE @]
                /\ Return(w, d.keep_going)
                /\ UNCHANGED <<clock, aborted>>

\* KeepRunning dispatching a worker in STATE_STOPPING to FinishInterval.
KeepRunning_StoppingFinishes(w) ==
  /\ ~aborted
  /\ pc[w] = "loop"
  /\ IF ~HasReached(Deadline(th[w]))
       THEN \* fast path
            /\ th[w].iterations_ < IterCap
            /\ th' = [th EXCEPT ![w].iterations_ = @ + 1]
            /\ bodies' = [bodies EXCEPT ![w] = @ + 1]
            /\ Return(w, TRUE)
            /\ UNCHANGED <<clock, shared, aborted>>
       ELSE CASE th[w].state_ = STATE_INITIAL -> StartRunning(w)
              [] th[w].state_ = STATE_RUNNING -> FinishInterval(w)
              [] th[w].state_ = STATE_STOPPING -> FinishInterval(w)
              [] OTHER -> \* STATE_STARTING, STATE_STOPPED: CHECK(false)
                          /\ aborted' = TRUE
                          /\ UNCHANGED <<clock, shared, th, pc, bodies>>
  /\ UNCHANGED <<FLAGS, instance, uses_real_time, wall, cpu, use_real_time,
                 ri, reported>>
  /\ UNCHANGED <<outerVars, rp, thread_stats>>

\* State::KeepRunning, called by the routine of worker w at the top of its loop.
KeepRunning(w) ==
  /\ ~aborted
  /\ pc[w] = "loop"
  /\ IF ~HasReached(Deadline(th[w]))
       THEN \* fast path
            /\ th[w].iterations_ < IterCap
            /\ th' = [th EXCEPT ![w].iterations_ = @ + 1]
            /\ bodies' = [bodies EXCEPT ![w] = @ + 1]
            /\ Return(w, TRUE)
            /\ UNCHANGED <<clock, shared, aborted>>
       ELSE CASE th[w].state_ = STATE_INITIAL -> StartRunning(w)
              [] th[w].state_ = STATE_RUNNING -> FinishInterval(w)
              [] th[w].state_ = STATE_STOPPING -> MaybeStop(w)
              [] OTHER -> \* STATE_STARTING, STATE_STOPPED: CHECK(false)
                          /\ aborted' = TRUE
                          /\ UNCHANGED <<clock, shared, th, pc, bodies>>
  /\ UNCHANGED <<FLAGS, instance, uses_real_time, wall, cpu, use_real_time,
                 ri, reported>>
  /\ UNCHANGED <<outerVars, rp, thread_stats>>

\* State::Run up to the call of the user routine, and the routine up to its
\* loop: it may call UseRealTime().
RunEnter(w) ==
  /\ thread_stats' = [thread_stats EXCEPT ![w] = ThreadStatsReset]
  /\ pc' = [pc EXCEPT ![w] = "loop"]
  /\ use_real_time' = (use_real_time \/ uses_real_time)

\* State::Run after the user routine has returned.
RunLeave(w) ==
  /\ shared' = [shared EXCEPT !.stats = ThreadStatsAdd(@, thread_stats[w])]
  /\ pc' = [pc EXCEPT ![w] = "done"]

\* State::PauseTiming, called by the routine of worker w in its loop body or
\* before its loop.
PauseTiming(w) ==
  /\ ~aborted
  /\ pc[w] = "loop"
  /\ th' = [th EXCEPT ![w].start_pause_ = wall]
  /\ pc' = [pc EXCEPT ![w] = "paused"]
  /\ UNCHANGED <<FLAGS, instance, uses_real_time, wall, cpu, use_real_time,
                 clock, shared, bodies, ri, reported, aborted>>
  /\ UNCHANGED <<outerVars, rp, thread_stats>>

\* ResumeTiming with = in the place of +=.
ResumeTiming_Overwrites(w) ==
  /\ ~aborted
  /\ pc[w] = "paused"
  /\ th' = [th EXCEPT ![w].pause_time_ = wall - th[w].start_pause_]
  /\ pc' = [pc EXCEPT ![w] = "loop"]
  /\ UNCHANGED <<FLAGS, instance, uses_real_time, wall, cpu, use_real_time,
                 clock, shared, bodies, ri, reported, aborted>>
  /\ UNCHANGED <<outerVars, rp, thread_stats>>

\* State::ResumeTiming, called by a routine that has paused.
ResumeTiming(w) ==
  /\ ~aborted
  /\ pc[w] = "paused"
  /\ th' = [th EXCEPT ![w].pause_time_ = @ + (wall - th[w].start_pause_)]
  /\ pc' = [pc EXCEPT ![w] = "loop"]
  /\ UNCHANGED <<FLAGS, instance, uses_real_time, wall, cpu, use_real_time,
                 clock, shared, bodies, ri, reported, aborted>>
  /\ UNCHANGED <<outerVars, rp, thread_stats>>

\* The values a routine passes to the setters.
BytesChoices == {1024}
ItemsChoices == {8}
LabelChoices == {"label"}

\* What the setters leave alone.
SetterUnchanged ==
  UNCHANGED <<FLAGS, instance, uses_real_time, wall, cpu, use_real_time, clock,
              th, pc, bodies, ri, reported, outerVars, rp>>

\* State::SetBytesProcessed, called by the routine of worker w
SetBytesProcessed(w, bytes) ==
  /\ ~aborted
  /\ pc[w] \in {"loop", "exited"}
  /\ IF ~(STATE_STOPPED = th[w].state_)
       THEN /\ aborted' = TRUE
            /\ UNCHANGED <<thread_stats, shared>>
       ELSE /\ thread_stats' = [thread_stats EXCEPT ![w].bytes_processed = bytes]
            /\ UNCHANGED <<shared, aborted>>
  /\ SetterUnchanged

\* State::SetItemsProcessed, called by the routine of worker w
SetItemsProcessed(w, items) ==
  /\ ~aborted
  /\ pc[w] \in {"loop", "exited"}
  /\ IF ~(STATE_STOPPED = th[w].state_)
       THEN /\ aborted' = TRUE
            /\ UNCHANGED <<thread_stats, shared>>
       ELSE /\ thread_stats' = [thread_stats EXCEPT ![w].items_processed = items]
            /\ UNCHANGED <<shared, aborted>>
  /\ SetterUnchanged

\* SetLabel storing the label before its check.
SetLabel_StoresFirst(w, label) ==
  /\ ~aborted
  /\ pc[w] \in {"loop", "exited"}
  /\ shared' = [shared EXCEPT !.label = label]
  /\ aborted' = ~(STATE_STOPPED = th[w].state_)
  /\ UNCHANGED thread_stats
  /\ SetterUnchanged

\* State::SetLabel, called by the routine of worker w
SetLabel(w, label) ==
  /\ ~aborted
  /\ pc[w] \in {"loop", "exited"}
  /\ IF ~(STATE_STOPPED = th[w].state_)
       THEN /\ aborted' = TRUE
            /\ UNCHANGED <<thread_stats, shared>>
       ELSE /\ shared' = [shared EXCEPT !.label = label]
            /\ UNCHANGED <<thread_stats, aborted>>
  /\ SetterUnchanged

\* --------------------------------------------- Benchmark::RunInstance

\* RunInstance, "Run them all", for a family without a thread-count axis:
\* r->Run() is called inline.
RunnerRun ==
  /\ ~aborted
  /\ ~reported.called
  /\ ri < instance.threads
  /\ ~instance.multithreaded
  /\ pc[ri] = "idle"
  /\ RunEnter(ri)
  /\ UNCHANGED <<FLAGS, instance, uses_real_time, wall, cpu, clock, shared,
                 th, bodies, ri, reported, aborted>>
  /\ UNCHANGED <<outerVars, rp>>

\* ... and the inline r->Run() returns: the loop moves to the next runner.
RunnerReturn ==
  /\ ~aborted
  /\ ri < instance.threads
  /\ pc[ri] = "exited"
  /\ RunLeave(ri)
  /\ ri' = ri + 1
  /\ UNCHANGED <<FLAGS, instance, uses_real_time, wall, cpu, use_real_time,
                 clock, th, bodies, reported, aborted>>
  /\ UNCHANGED <<outerVars, rp, thread_stats>>

\* RunInstance, "Run them all", for a family with a thread-count axis: the
\* runner is released and nothing runs it.
RunnerSkip ==
  /\ ~aborted
  /\ ~reported.called
  /\ ri < instance.threads
  /\ instance.multithreaded
  /\ ri' = ri + 1
  /\ UNCHANGED <<FLAGS, instance, uses_real_time, wall, cpu, use_real_time,
                 clock, shared, th, pc, bodies, reported, aborted>>
  /\ UNCHANGED <<outerVars, rp, thread_stats>>

\* RunInstance: br->ReportRuns(state.runs)
ReportRuns ==
  /\ ~aborted
  /\ ~reported.called
  /\ ri = instance.threads
  /\ reported' = [called |-> TRUE, runs |-> shared.runs]
  /\ rp' = Append(rp, [call |-> "ReportRuns", instance |-> instance,
                        reports |-> shared.runs])
  /\ UNCHANGED <<FLAGS, instance, uses_real_time, wall, cpu, use_real_time,
                 clock, shared, th, pc, bodies, ri, aborted>>
  /\ UNCHANGED <<outerVars, thread_stats>>

\* ------------------------------------------------ the workers on threads

\* pool->Add(NewCallback(r, &State::Run)): worker w's thread starts State::Run.
PoolRun(w) ==
  /\ ~aborted
  /\ pc[w] = "idle"
  /\ RunEnter(w)
  /\ UNCHANGED <<FLAGS, instance, uses_real_time, wall, cpu, clock, shared,
                 th, bodies, ri, reported, aborted>>
  /\ UNCHANGED <<outerVars, rp>>

\* Worker w's State::Run returns on its thread.
PoolReturn(w) ==
  /\ ~aborted
  /\ pc[w] = "exited"
  /\ RunLeave(w)
  /\ UNCHANGED <<FLAGS, instance, uses_real_time, wall, cpu, use_real_time,
                 clock, th, bodies, ri, reported, aborted>>
  /\ UNCHANGED <<outerVars, rp, thread_stats>>

\* pool->JoinAll(), then br->ReportRuns(state.runs)
PoolJoinAllReport ==
  /\ ~aborted
  /\ ~reported.called
  /\ \A w \in Workers : pc[w] = "done"
  /\ reported' = [called |-> TRUE, runs |-> shared.runs]
  /\ rp' = Append(rp, [call |-> "ReportRuns", instance |-> instance,
                        reports |-> shared.runs])
  /\ UNCHANGED <<FLAGS, instance, uses_real_time, wall, cpu, use_real_time,
                 clock, shared, th, pc, bodies, ri, aborted>>
  /\ UNCHANGED <<outerVars, thread_stats>>

\* ------------------------------------------------------------- registry

\* A deleted family's slot in the registry.
NULL == 0

\* The Benchmark objects a program may construct.
FamilyIds == 1 .. MaxFamilies

\* std::numeric_limits<int32_t>::max()
INT32_MAX == 2147483647

\* For non-dense Range, intermediate values are powers of kRangeMultiplier.
kRangeMultiplier == 8

\* Benchmark::kNumCpuMarker, the thread count ThreadPerCpu registers.
kNumCpuMarker == -1

\* Benchmark::kNoRange, the index of an axis that was not set.
kNoRange == INT32_MAX

\* NumCPUs()
NumCPUs == MaxThreads

\* The memory of a Benchmark that is not constructed (or was destroyed).
NoBenchmark ==
  [ live |-> FALSE, name_ |-> <<>>, registration_index_ |-> 0,
    rangeX_ |-> <<>>, rangeY_ |-> <<>>, thread_counts_ |-> <<>> ]

\* The values a program passes to the constructor and the mutators.
FamilyNames == {<<"A", "a", "A">>, <<"A", "a", "B">>, <<"C">>}
ArgChoices == {0, 9}
\* <<lo, hi>>: three values, one value, hi < lo, a negative lo
RangeChoices == {<<1, 9>>, <<1, 1>>, <<9, 9>>, <<9, 1>>, <<-1, 1>>}
ThreadChoices == 0 .. MaxThreads

\* What the registry holds: its live families and the values of their axes.
\* The model keeps it within MaxRegistrySize.
RegistrySize(fm) ==
  LET RECURSIVE Sum(_)
      Sum(ids) == IF ids = {} THEN 0
                  ELSE LET f == CHOOSE g \in ids : TRUE
                       IN 1 + Len(fm[f].rangeX_) + Len(fm[f].rangeY_)
                          + Len(fm[f].thread_counts_) + Sum(ids \ {f})
  IN Sum({f \in FamilyIds : fm[f].live})

\* Benchmark::Benchmark
BenchmarkCtor(f, name) ==
  /\ ~aborted
  /\ hpc = "registration"
  /\ ~fam[f].live
  /\ Len(families) < MaxSlots
  /\ RegistrySize(fam) < MaxRegistrySize
  /\ fam' = [fam EXCEPT ![f] = [NoBenchmark EXCEPT
                                  !.live = TRUE,
                                  !.name_ = name,
                                  !.registration_index_ = Len(families)]]
  /\ families' = Append(families, f)
  /\ UNCHANGED <<FLAGS, instance, uses_real_time, wall, cpu, use_real_time,
                 clock, shared, th, pc, bodies, ri, reported, aborted>>
  /\ UNCHANGED <<spec, benchmarks, bi, hpc, rp, thread_stats, ar>>

\* The destructor leaving the trailing NULL slots in the vector.
Shrink_Never(fs) == fs

\* Benchmark::~Benchmark, "Shrink the vector if convenient".
RECURSIVE Shrink(_)
Shrink(fs) ==
  IF fs # <<>> /\ fs[Len(fs)] = NULL
    THEN Shrink(SubSeq(fs, 1, Len(fs) - 1))
    ELSE fs

\* Benchmark::~Benchmark
BenchmarkDtor(f) ==
  /\ ~aborted
  /\ hpc = "registration"
  /\ fam[f].live
  /\ LET index == fam[f].registration_index_ + 1 IN
       IF ~(index \in DOMAIN families /\ families[index] = f)
         THEN /\ aborted' = TRUE
              /\ UNCHANGED <<families, fam>>
         ELSE /\ families' = Shrink([families EXCEPT ![index] = NULL])
              /\ fam' = [fam EXCEPT ![f] = NoBenchmark]
              /\ UNCHANGED aborted
  /\ UNCHANGED <<FLAGS, instance, uses_real_time, wall, cpu, use_real_time,
                 clock, shared, th, pc, bodies, ri, reported>>
  /\ UNCHANGED <<spec, benchmarks, bi, hpc, rp, thread_stats, ar>>

\* Benchmark::AddRange, its loop from i on.
RECURSIVE AddRangeLoop(_, _, _, _, _)
AddRangeLoop(dst, i, lo, hi, mult) ==
  IF i < INT32_MAX \div mult
    THEN IF i >= hi
           THEN dst
           ELSE AddRangeLoop(IF i > lo THEN Append(dst, i) ELSE dst,
                             i * mult, lo, hi, mult)
    ELSE dst

\* Benchmark::AddRange: whether its checks passed, and dst after the call.
AddRange(dst, lo, hi, mult) ==
  IF ~(lo >= 0) \/ ~(hi >= lo)
    THEN [ok |-> FALSE, dst |-> dst]
    ELSE LET d == AddRangeLoop(Append(dst, lo), 1, lo, hi, mult)
         IN [ok |-> TRUE, dst |-> IF hi # lo THEN Append(d, hi) ELSE d]

\* start, start + 1, ..., limit
RECURSIVE Dense(_, _)
Dense(start, limit) ==
  IF start > limit THEN <<>> ELSE <<start>> \o Dense(start + 1, limit)

\* The registration mutators, on the Benchmark b: whether the checks of the
\* call passed, and b after the call.

\* Benchmark::Arg
Arg(b, x) == [ok |-> TRUE, b |-> [b EXCEPT !.rangeX_ = Append(@, x)]]

\* Benchmark::Range
Range(b, start, limit) ==
  LET arglist == AddRange(<<>>, start, limit, kRangeMultiplier)
  IN IF ~arglist.ok
       THEN [ok |-> FALSE, b |-> b]
       ELSE [ok |-> TRUE, b |-> [b EXCEPT !.rangeX_ = @ \o arglist.dst]]

\* DenseRange with its two checks after the loop that pushes the values.
DenseRange_ChecksLast(b, start, limit) ==
  [ ok |-> (start >= 0 /\ start <= limit),
    b |-> [b EXCEPT !.rangeX_ = @ \o Dense(start, limit)] ]

\* Benchmark::DenseRange
DenseRange(b, start, limit) ==
  IF ~(start >= 0) \/ ~(start <= limit)
    THEN [ok |-> FALSE, b |-> b]
    ELSE [ok |-> TRUE, b |-> [b EXCEPT !.rangeX_ = @ \o Dense(start, limit)]]

\* Benchmark::ArgPair
ArgPair(b, x, y) ==
  [ok |-> TRUE, b |-> [b EXCEPT !.rangeX_ = Append(@, x), !.rangeY_ = Append(@, y)]]

\* Benchmark::RangePair: resize and copy replace what the axes held.
RangePair(b, lo1, hi1, lo2, hi2) ==
  LET arglist1 == AddRange(<<>>, lo1, hi1, kRangeMultiplier)
      arglist2 == AddRange(<<>>, lo2, hi2, kRangeMultiplier)
  IN IF ~arglist1.ok \/ ~arglist2.ok
       THEN [ok |-> FALSE, b |-> b]
       ELSE [ok |-> TRUE, b |-> [b EXCEPT !.rangeX_ = arglist1.dst,
                                          !.rangeY_ = arglist2.dst]]

\* Benchmark::Threads
Threads(b, t) ==
  IF ~(t > 0)
    THEN [ok |-> FALSE, b |-> b]
    ELSE [ok |-> TRUE, b |-> [b EXCEPT !.thread_counts_ = Append(@, t)]]

\* Benchmark::ThreadRange
ThreadRange(b, min_threads, max_threads) ==
  IF ~(min_threads > 0) \/ ~(max_threads >= min_threads)
    THEN [ok |-> FALSE, b |-> b]
    ELSE LET r == AddRange(b.thread_counts_, min_threads, max_threads, 2)
         IN [ok |-> r.ok, b |-> [b EXCEPT !.thread_counts_ = r.dst]]

\* Benchmark::ThreadPerCpu
ThreadPerCpu(b) ==
  [ok |-> TRUE, b |-> [b EXCEPT !.thread_counts_ = Append(@, kNumCpuMarker)]]

\* A mutator is called on the live family f and leaves r: a failed check ends
\* the process.
Mutate(f, r) ==
  /\ ~aborted
  /\ hpc = "registration"
  /\ fam[f].live
  /\ RegistrySize([fam EXCEPT ![f] = r.b]) <= MaxRegistrySize
  /\ fam' = [fam EXCEPT ![f] = r.b]
  /\ aborted' = ~r.ok
  /\ UNCHANGED <<FLAGS, instance, uses_real_time, wall, cpu, use_real_time,
                 clock, shared, th, pc, bodies, ri, reported>>
  /\ UNCHANGED <<families, spec, benchmarks, bi, hpc, rp, thread_stats, ar>>

CallArg(f) == \E x \in ArgChoices : Mutate(f, Arg(fam[f], x))

CallRange(f) ==
  \E r \in RangeChoices : Mutate(f, Range(fam[f], r[1], r[2]))

CallDenseRange(f) ==
  \E r \in RangeChoices : Mutate(f, DenseRange(fam[f], r[1], r[2]))

CallArgPair(f) == \E x, y \in ArgChoices : Mutate(f, ArgPair(fam[f], x, y))

CallRangePair(f) ==
  \E r1, r2 \in RangeChoices :
    Mutate(f, RangePair(fam[f], r1[1], r1[2], r2[1], r2[2]))

CallThreads(f) == \E t \in ThreadChoices : Mutate(f, Threads(fam[f], t))

CallThreadRange(f) ==
  \E min_threads, max_threads \in ThreadChoices :
    Mutate(f, ThreadRange(fam[f], min_threads, max_threads))

CallThreadPerCpu(f) == Mutate(f, ThreadPerCpu(fam[f]))

\* ------------------------------------------------- names and the filter

\* A string is the sequence of its characters.
DigitChars == <<"0", "1", "2", "3", "4", "5", "6", "7", "8", "9">>

\* operator<< of an integer n >= 0: its decimal digits.
RECURSIVE Digits(_)
Digits(n) ==
  IF n < 10 THEN <<DigitChars[n + 1]>>
  ELSE Digits(n \div 10) \o <<DigitChars[(n % 10) + 1]>>

\* The last k decimal digits of n, with leading zeros.
RECURSIVE FixedDigits(_, _)
FixedDigits(n, k) ==
  IF k = 0 THEN <<>>
  ELSE FixedDigits(n \div 10, k - 1) \o <<DigitChars[(n % 10) + 1]>>

RECURSIVE StripZeros(_)
StripZeros(str) ==
  IF str # <<>> /\ str[Len(str)] = "0"
    THEN StripZeros(SubSeq(str, 1, Len(str) - 1))
    ELSE str

RECURSIVE Pow(_, _)
Pow(b, e) == IF e = 0 THEN 1 ELSE b * Pow(b, e - 1)

\* One step of the long division of r / den (r < den): the next decimal digit
\* and the remainder, computed within 32 bits (den is a power of 1024).
DivStep(r, den) ==
  IF r <= INT32_MAX \div 10
    THEN [digit |-> (r * 10) \div den, rem |-> (r * 10) % den]
    ELSE LET half == 32768
             t == 10 * (r % half)
             hi == (10 * (r \div half)) + (t \div half)
         IN [digit |-> hi \div half, rem |-> ((hi % half) * half) + (t % half)]

\* k steps of the long division, from the digits q found so far.
RECURSIVE DivSteps(_, _, _, _)
DivSteps(q, r, den, k) ==
  IF k = 0 THEN [q |-> q, rem |-> r]
  ELSE LET st == DivStep(r, den)
       IN DivSteps(q * 10 + st.digit, st.rem, den, k - 1)

\* operator<< of the double num / den, for 1 <= num / den < 10000 (the
\* stream's default format: six significant digits, the nearest value, no
\* trailing zeros).
StreamDouble(num, den) ==
  LET ip == num \div den
      f == 6 - Len(Digits(ip))
      dv == DivSteps(ip, num % den, den, f)
      half == den \div 2
      up == dv.rem > half \/ (dv.rem = half /\ dv.q % 2 = 1)
      q == IF up THEN dv.q + 1 ELSE dv.q
      frac == StripZeros(FixedDigits(q % Pow(10, f), f))
  IN Digits(q \div Pow(10, f)) \o (IF frac = <<>> THEN <<>> ELSE <<".">> \o frac)

\* kBigSIUnits
kBigSIUnits == <<"k", "M", "G", "T", "P", "E", "Z", "Y">>

\* ToExponentAndMantissa(val, 1.0, 0, 1024., ...) for an integer val >= 0:
\* the least i with val / 1024^i <= 1024, from i on.
RECURSIVE PositivePowers(_, _, _)
PositivePowers(val, den, i) ==
  IF val \div den < 1024 \/ (val \div den = 1024 /\ val % den = 0)
    THEN [mantissa |-> StreamDouble(val, den), exponent |-> i]
    ELSE PositivePowers(val, den * 1024, i + 1)

\* ToExponentAndMantissa with thresh 1.0, precision 0 and one_k 1024, as
\* AppendHumanReadable calls it, for an integer val >= 0.
ToExponentAndMantissa(val) ==
  IF val > 1024 THEN PositivePowers(val, 1024, 1)
  ELSE [mantissa |-> Digits(val), exponent |-> 0]

\* ExponentToPrefix(exponent, false), for exponent >= 0
ExponentToPrefix(exponent) ==
  IF exponent = 0 THEN <<>> ELSE <<kBigSIUnits[exponent]>>

\* ToBinaryStringFullySpecified(n, 1.0, 0)
ToBinaryStringFullySpecified(n) ==
  LET em == ToExponentAndMantissa(IF n < 0 THEN -n ELSE n)
  IN (IF n < 0 THEN <<"-">> ELSE <<>>) \o em.mantissa \o ExponentToPrefix(em.exponent)

\* AppendHumanReadable
AppendHumanReadable(n, str) == str \o <<"/">> \o ToBinaryStringFullySpecified(n)

\* regcomp(&re, spec, REG_EXTENDED | REG_NOSUB) for an expression made of
\* ordinary characters, "." and "(": an unmatched "(" does not compile.
regcomp(re) == \A j \in 1 .. Len(re) : re[j] # "("

\* regexec(&re, str, 0, NULL, 0) == 0: the expression matches somewhere in str.
regexec(re, str) ==
  \E i \in 0 .. (Len(str) - Len(re)) :
    \A j \in 1 .. Len(re) : re[j] = "." \/ re[j] = str[i + j]

\* --------------------------------------------------------- expansion

\* Benchmark::CreateBenchmarkInstances, the Instance it builds for the thread
\* count at position t of thread_counts: name, bm, the axis values, threads.
\* multithreaded holds what Instance::multithreaded() returns.
NewInstance(b, f, rangeXindex, rangeYindex, is_multithreaded, thread_counts, t) ==
  LET num_threads == IF thread_counts[t] = kNumCpuMarker
                       THEN NumCPUs ELSE thread_counts[t]
      rangeXset == rangeXindex # kNoRange
      rangeYset == rangeYindex # kNoRange
      rangeX == IF rangeXset THEN b.rangeX_[rangeXindex + 1] ELSE kNoRange
      rangeY == IF rangeYset THEN b.rangeY_[rangeYindex + 1] ELSE kNoRange
      name1 == IF rangeXset THEN AppendHumanReadable(rangeX, b.name_) ELSE b.name_
      name2 == IF rangeYset THEN AppendHumanReadable(rangeY, name1) ELSE name1
      name3 == IF is_multithreaded
                 THEN name2 \o <<"/", "t", "h", "r", "e", "a", "d", "s", ":">>
                            \o Digits(num_threads)
                 ELSE name2
  IN [ name |-> name3, bm |-> f,
       rangeXset |-> rangeXset, rangeX |-> rangeX,
       rangeYset |-> rangeYset, rangeY |-> rangeY,
       threads |-> num_threads, multithreaded |-> is_multithreaded ]

\* CreateBenchmarkInstances with the thread-count suffix only for more than one thread.
CreateBenchmarkInstances_SuffixAboveOne(b, f, rangeXindex, rangeYindex) ==
  LET is_multithreaded == b.thread_counts_ # <<>>
      thread_counts == IF is_multithreaded THEN b.thread_counts_ ELSE <<1>>
  IN [t \in 1 .. Len(thread_counts) |->
        LET i == NewInstance(b, f, rangeXindex, rangeYindex, is_multithreaded,
                             thread_counts, t)
        IN IF i.threads > 1 THEN i
           ELSE [NewInstance(b, f, rangeXindex, rangeYindex, FALSE, thread_counts, t)
                   EXCEPT !.multithreaded = is_multithreaded]]

\* Benchmark::CreateBenchmarkInstances, of the family object b at f
CreateBenchmarkInstances(b, f, rangeXindex, rangeYindex) ==
  LET is_multithreaded == b.thread_counts_ # <<>>
      thread_counts == IF is_multithreaded THEN b.thread_counts_ ELSE <<1>>
  IN [t \in 1 .. Len(thread_counts) |->
        NewInstance(b, f, rangeXindex, rangeYindex, is_multithreaded,
                    thread_counts, t)]

\* The expansion pairing the x-th first-axis value with the x-th second-axis
\* value instead of with every second-axis value.
RECURSIVE ExpandFrom_Pairs(_, _, _, _)
ExpandFrom_Pairs(b, f, x, y) ==
  IF x >= Len(b.rangeX_) THEN <<>>
  ELSE IF b.rangeY_ = <<>>
    THEN CreateBenchmarkInstances(b, f, x, kNoRange) \o ExpandFrom_Pairs(b, f, x + 1, 0)
  ELSE IF x >= Len(b.rangeY_) THEN <<>>
  ELSE CreateBenchmarkInstances(b, f, x, x) \o ExpandFrom_Pairs(b, f, x + 1, 0)

\* FindBenchmarks, lines 768-786: the instances of one matching family, its
\* loops from index x, y on.
RECURSIVE ExpandFrom(_, _, _, _)
ExpandFrom(b, f, x, y) ==
  IF x >= Len(b.rangeX_) THEN <<>>
  ELSE IF b.rangeY_ = <<>>
    THEN CreateBenchmarkInstances(b, f, x, kNoRange) \o ExpandFrom(b, f, x + 1, 0)
  ELSE IF y >= Len(b.rangeY_) THEN ExpandFrom(b, f, x + 1, 0)
  ELSE CreateBenchmarkInstances(b, f, x, y) \o ExpandFrom(b, f, x, y + 1)

\* FindBenchmarks, lines 768-786
Expand(b, f) ==
  IF b.rangeX_ = <<>> /\ b.rangeY_ = <<>>
    THEN CreateBenchmarkInstances(b, f, kNoRange, kNoRange)
    ELSE ExpandFrom(b, f, 0, 0)

\* FindBenchmarks matching the filter against each instance's name.
RECURSIVE FindInFamilies_MatchesInstanceName(_, _, _, _)
FindInFamilies_MatchesInstanceName(re, fs, fm, k) ==
  IF k > Len(fs) THEN <<>>
  ELSE (IF fs[k] = NULL THEN <<>>
        ELSE SelectSeq(Expand(fm[fs[k]], fs[k]), LAMBDA i : regexec(re, i.name)))
       \o FindInFamilies_MatchesInstanceName(re, fs, fm, k + 1)

\* FindBenchmarks, its loop over *families from slot k on
RECURSIVE FindInFamilies(_, _, _, _)
FindInFamilies(re, fs, fm, k) ==
  IF k > Len(fs) THEN <<>>
  ELSE (IF fs[k] = NULL THEN <<>>                       \* family was deleted
        ELSE IF ~regexec(re, fm[fs[k]].name_) THEN <<>> \* skipping
        ELSE Expand(fm[fs[k]], fs[k]))
       \o FindInFamilies(re, fs, fm, k + 1)

\* FindBenchmarks selecting every family whatever the expression.
FindBenchmarks_IgnoresFilter(re) ==
  IF ~regcomp(re) THEN <<>>
  ELSE FindInFamilies(<<".">>, families, fam, 1)

\* Benchmark::FindBenchmarks(spec, &benchmarks), benchmarks being empty
FindBenchmarks(re) ==
  IF ~regcomp(re) THEN <<>>   \* "Could not compile benchmark re"
  ELSE FindInFamilies(re, families, fam, 1)

\* DEFINE_string(benchmark_filter, ".", ...)
benchmark_filter_default == <<".">>

\* The filter expressions a program is given.
FilterChoices ==
  { <<>>, benchmark_filter_default, <<"a", "l", "l">>, <<"A", ".", "A">>,
    <<"C">>, <<".", ".", ".">>, <<"(">> }

\* FindMatchingBenchmarkNames, up to the names it copies out
FindMatchingBenchmarkNames ==
  /\ ~aborted
  /\ hpc = "registration"
  /\ \E re \in FilterChoices :
       /\ spec' = re
       /\ benchmarks' = IF re = <<>> THEN <<>> ELSE FindBenchmarks(re)
  /\ hpc' = "found"
  /\ UNCHANGED <<FLAGS, instance, uses_real_time, wall, cpu, use_real_time,
                 clock, shared, th, pc, bodies, ri, reported, aborted>>
  /\ UNCHANGED <<families, fam, bi, rp, thread_stats, ar>>

\* --------------------------------------------- RunMatchingBenchmarks

\* RunMatchingBenchmarks: the width one instance needs, "_stddev" and
\* "threads:XX" included.
NameWidth(benchmark) ==
  IF benchmark.threads > 1 /\ FLAGS.benchmark_repetitions > 1
    THEN Len(benchmark.name) + 17
  ELSE IF benchmark.threads > 1 THEN Len(benchmark.name) + 10
  ELSE IF FLAGS.benchmark_repetitions > 1 THEN Len(benchmark.name) + 7
  ELSE Len(benchmark.name)

\* "Determine the width of the name field using a minimum width of 10."
NameFieldWidth(found) ==
  LET widths == {10} \cup { NameWidth(found[i]) : i \in DOMAIN found }
  IN CHOOSE m \in widths : \A n \in widths : m >= n

\* ConsoleReporter::ReportContext
ConsoleReporterReportContext == TRUE

\* internal::RunMatchingBenchmarks(spec, reporter) up to its loop, with a
\* reporter whose ReportContext returns proceed.
RunMatchingBenchmarks(s, proceed) ==
  /\ spec' = s
  /\ IF s = <<>>
       THEN /\ hpc' = "returned"
            /\ UNCHANGED <<benchmarks, bi, rp>>
       ELSE /\ benchmarks' = FindBenchmarks(s)
            /\ rp' = Append(rp, [call |-> "ReportContext",
                                  name_field_width |-> NameFieldWidth(benchmarks'),
                                  returned |-> proceed])
            /\ bi' = 0
            /\ hpc' = IF proceed /\ benchmarks' # <<>>
                        THEN "loop" ELSE "returned"
  /\ UNCHANGED <<FLAGS, instance, uses_real_time, wall, cpu, use_real_time,
                 clock, shared, th, pc, bodies, ri, reported, aborted>>
  /\ UNCHANGED <<families, fam, thread_stats, ar>>

\* RunSpecifiedBenchmarks
RunSpecifiedBenchmarks ==
  /\ ~aborted
  /\ hpc = "RunSpecifiedBenchmarks"
  /\ LET flag == FLAGS.benchmark_filter
         s == IF flag = <<>> \/ flag = <<"a", "l", "l">> THEN <<".">> ELSE flag
     IN RunMatchingBenchmarks(s, ConsoleReporterReportContext)

\* A program calling internal::RunMatchingBenchmarks with a filter and a
\* reporter of its own.
CallRunMatchingBenchmarks ==
  /\ ~aborted
  /\ hpc = "RunMatchingBenchmarks"
  /\ \E s \in FilterChoices, proceed \in BOOLEAN :
       RunMatchingBenchmarks(s, proceed)

\* RunMatchingBenchmarks calls Benchmark::RunInstance(benchmark, reporter):
\* RunInstance up to "Run them all".
RunInstanceBegin ==
  /\ ~aborted
  /\ hpc = "loop"
  /\ bi < Len(benchmarks)
  /\ LET b == benchmarks[bi + 1]
         runners == 0 .. (b.threads - 1)
     IN /\ instance' = b
        /\ use_real_time' = FALSE
        /\ clock' = [type_ |-> CPU_TIME, approx_time_ |-> cpu]
        /\ shared' = NewSharedState(b.threads)
        /\ th' = [w \in runners |-> NewState(FLAGS)]
        /\ pc' = [w \in runners |-> "idle"]
        /\ bodies' = [w \in runners |-> 0]
        /\ thread_stats' = [w \in runners |->
                              IF w \in DOMAIN thread_stats
                                THEN thread_stats[w] ELSE ThreadStatsReset]
  /\ ri' = 0
  /\ reported' = [called |-> FALSE, runs |-> <<>>]
  /\ hpc' = "RunInstance"
  /\ UNCHANGED <<FLAGS, uses_real_time, wall, cpu, aborted>>
  /\ UNCHANGED <<families, fam, spec, benchmarks, bi, rp, ar>>

\* RunInstance returns to the loop of RunMatchingBenchmarks.
RunInstanceReturn ==
  /\ ~aborted
  /\ hpc = "RunInstance"
  /\ reported.called
  /\ bi' = bi + 1
  /\ hpc' = IF bi + 1 < Len(benchmarks) THEN "loop" ELSE "returned"
  /\ UNCHANGED <<FLAGS, instance, uses_real_time, wall, cpu, use_real_time,
                 clock, shared, th, pc, bodies, ri, reported, aborted>>
  /\ UNCHANGED <<families, fam, spec, benchmarks, rp, thread_stats, ar>>

\* ------------------------------------------------------ specifications

FlagValues ==
  [ benchmark_min_iters : 0 .. MaxMinIters,
    benchmark_max_iters : MaxItersChoices,
    benchmark_min_time : MinTimeChoices,
    benchmark_repetitions : 1 .. MaxReps,
    benchmark_filter : {benchmark_filter_default} ]

\* The state RunInstance is in once it has built the clock, the shared state
\* and the runners.
InitCommon ==
  /\ FLAGS \in FlagValues
  /\ uses_real_time \in BOOLEAN
  /\ wall = WallEpoch
  /\ cpu = 0
  /\ use_real_time = FALSE
  /\ clock = [type_ |-> CPU_TIME, approx_time_ |-> 0]
  /\ shared = NewSharedState(instance.threads)
  /\ th = [w \in Workers |-> NewState(FLAGS)]
  /\ pc = [w \in Workers |-> "idle"]
  /\ bodies = [w \in Workers |-> 0]
  /\ ri = 0
  /\ reported = [called |-> FALSE, runs |-> <<>>]
  /\ aborted = FALSE
  /\ thread_stats = [w \in Workers |-> ThreadStatsReset]
  /\ rp = <<>>

\* No call of AddRange is being looked at.
NoAddRange == [lo |-> 0, hi |-> 0, mult |-> 0, called |-> FALSE, dst |-> <<>>]

\* One instance is measured on its own: the registry is left out.
InitNoRegistry ==
  /\ families = <<>>
  /\ fam = [f \in FamilyIds |-> NoBenchmark]
  /\ spec = <<>>
  /\ benchmarks = <<>>
  /\ bi = 0
  /\ hpc = "RunInstance"
  /\ ar = NoAddRange

\* CreateBenchmarkInstances: without a thread-count axis the one instance has
\* one thread; with one, each instance has one of its thread counts.
Init ==
  /\ instance \in {[threads |-> 1, multithreaded |-> FALSE]}
                    \cup [threads : 1 .. MaxThreads, multithreaded : {TRUE}]
  /\ InitCommon
  /\ InitNoRegistry

Next == Tick \/ RunnerRun \/ RunnerSkip \/ RunnerReturn \/ ReportRuns
        \/ \E w \in Workers : KeepRunning(w)

Spec == Init /\ [][Next]_vars

\* RunInstance for a family registered without a thread-count axis.
InitInline ==
  /\ instance = [threads |-> 1, multithreaded |-> FALSE]
  /\ InitCommon
  /\ InitNoRegistry

NextInline == Tick \/ RunnerRun \/ RunnerReturn \/ ReportRuns
              \/ \E w \in Workers : KeepRunning(w)

SpecInline == InitInline /\ [][NextInline]_vars

\* The same, with a routine that may call the setters at any point.
NextSetters ==
  \/ NextInline
  \/ \E w \in Workers :
        \/ \E bytes \in BytesChoices : SetBytesProcessed(w, bytes)
        \/ \E items \in ItemsChoices : SetItemsProcessed(w, items)
        \/ \E label \in LabelChoices : SetLabel(w, label)

SpecSetters == InitInline /\ [][NextSetters]_vars

\* The same, with a routine that pauses and resumes the timing, in balanced
\* pairs, before its loop and in its loop bodies.
NextPause ==
  \/ NextInline
  \/ \E w \in Workers : PauseTiming(w)
  \/ \E w \in Workers : ResumeTiming(w)

SpecPause == InitInline /\ [][NextPause]_vars

InitPool ==
  /\ instance \in [threads : 1 .. MaxThreads, multithreaded : {TRUE}]
  /\ InitCommon
  /\ InitNoRegistry

NextPool == Tick \/ PoolJoinAllReport
            \/ \E w \in Workers : PoolRun(w) \/ KeepRunning(w) \/ PoolReturn(w)

SpecPool == InitPool /\ [][NextPool]_vars

\* The steps of the time sources a run is followed for when it is asked whether
\* it ends: each worker closes at most benchmark_max_iters + 1 intervals that
\* recorded an iteration, each within one step.
TermTicks == MaxThreads * (MaxMinIters + 2)

\* Worker v has nothing to do until time has passed or another worker has
\* moved: it has run its bodies and is before its deadline, it spins in
\* MaybeStop, or its routine has returned.
Waits(v) ==
  /\ pc[v] # "idle"
  /\ pc[v] = "loop" =>
       IF ~HasReached(Deadline(th[v]))
         THEN th[v].iterations_ >= IterCap
         ELSE /\ th[v].state_ = STATE_STOPPING
              /\ shared.stopping < shared.threads

\* The time sources advance by one step, the process being on a CPU, while a
\* worker is in its loop before its deadline and the other workers have
\* nothing to do until time has passed.
ClockAdvances ==
  /\ ~aborted
  /\ ~reported.called
  /\ wall < WallEpoch + TermTicks * TickMicros
  /\ \E w \in Workers :
       /\ pc[w] = "loop"
       /\ ~HasReached(Deadline(th[w]))
       /\ \A v \in Workers \ {w} : Waits(v)
  /\ wall' = wall + TickMicros
  /\ cpu' = cpu + TickMicros
  /\ clock' = BGThread(clock, wall + TickMicros, cpu + TickMicros)
  /\ UNCHANGED <<FLAGS, instance, uses_real_time, use_real_time,
                 shared, th, pc, bodies, ri, reported, aborted>>
  /\ UNCHANGED <<outerVars, rp, thread_stats>>

\* The workers on threads, with time sources that keep advancing and threads
\* that keep being scheduled.
NextTermination ==
  \/ ClockAdvances
  \/ PoolJoinAllReport
  \/ \E w \in Workers : PoolRun(w)
  \/ \E w \in Workers : KeepRunning(w)
  \/ \E w \in Workers : PoolReturn(w)

SpecTermination ==
  /\ InitPool
  /\ [][NextTermination]_vars
  /\ WF_vars(ClockAdvances)
  /\ \A w \in 0 .. (MaxThreads - 1) :
       /\ WF_vars(w \in Workers /\ PoolRun(w))
       /\ WF_vars(w \in Workers /\ KeepRunning(w))

\* The flags as the program has them by default, scaled to the model: no
\* minimum of iterations asked for, one repetition.
DefaultFlags ==
  [ benchmark_min_iters |-> 0,
    benchmark_max_iters |-> MaxMinIters + 1,
    benchmark_min_time |-> kMaxIntervalMicros,
    benchmark_repetitions |-> 1,
    benchmark_filter |-> benchmark_filter_default ]

\* No instance is being measured.
InitNoRun ==
  /\ FLAGS = DefaultFlags
  /\ instance = [threads |-> 0, multithreaded |-> FALSE]
  /\ uses_real_time = FALSE
  /\ wall = WallEpoch
  /\ cpu = 0
  /\ use_real_time = FALSE
  /\ clock = [type_ |-> CPU_TIME, approx_time_ |-> 0]
  /\ shared = NewSharedState(0)
  /\ th = <<>>
  /\ pc = <<>>
  /\ bodies = <<>>
  /\ ri = 0
  /\ reported = [called |-> FALSE, runs |-> <<>>]
  /\ aborted = FALSE
  /\ thread_stats = <<>>
  /\ rp = <<>>

\* Registration: families are constructed, given their axes and destroyed, and
\* then enumerated.
InitRegistry ==
  /\ InitNoRun
  /\ families = <<>>
  /\ fam = [f \in FamilyIds |-> NoBenchmark]
  /\ spec = <<>>
  /\ benchmarks = <<>>
  /\ bi = 0
  /\ hpc = "registration"
  /\ ar = NoAddRange

NextRegistry ==
  \/ \E f \in FamilyIds :
        \/ \E name \in FamilyNames : BenchmarkCtor(f, name)
        \/ BenchmarkDtor(f)
        \/ CallArg(f) \/ CallRange(f) \/ CallDenseRange(f) \/ CallArgPair(f)
        \/ CallRangePair(f) \/ CallThreads(f) \/ CallThreadRange(f)
        \/ CallThreadPerCpu(f)
  \/ FindMatchingBenchmarkNames

SpecRegistry == InitRegistry /\ [][NextRegistry]_vars

\* mult^e, or INT32_MAX where that is beyond 32 bits.
RECURSIVE PowerWithin32(_, _)
PowerWithin32(mult, e) ==
  IF e = 0 THEN 1
  ELSE LET p == PowerWithin32(mult, e - 1)
       IN IF p > INT32_MAX \div mult THEN INT32_MAX ELSE p * mult

\* The multipliers AddRange is called with: kRangeMultiplier by Range and
\* RangePair, 2 by ThreadRange.
Multipliers == {kRangeMultiplier, 2}

\* The bounds AddRange is called with: 0, the powers of the multipliers and
\* their neighbours, the largest int.
BoundChoices ==
  {0, INT32_MAX - 1, INT32_MAX}
    \cup { PowerWithin32(mult, e) + d :
             mult \in Multipliers, e \in 0 .. MaxPower, d \in {-1, 0} }
    \cup { LET p == PowerWithin32(kRangeMultiplier, e)
           IN IF p = INT32_MAX THEN p ELSE p + 1 : e \in 0 .. MaxPower }

\* AddRange is about to be called on an empty vector.
InitAddRange ==
  /\ InitNoRun
  /\ families = <<>>
  /\ fam = [f \in FamilyIds |-> NoBenchmark]
  /\ spec = <<>>
  /\ benchmarks = <<>>
  /\ bi = 0
  /\ hpc = "registration"
  /\ \E lo, hi \in BoundChoices, mult \in Multipliers :
       ar = [lo |-> lo, hi |-> hi, mult |-> mult, called |-> FALSE, dst |-> <<>>]

\* The call AddRange(&dst, lo, hi, mult)
CallAddRange ==
  /\ ~aborted
  /\ ~ar.called
  /\ LET r == AddRange(<<>>, ar.lo, ar.hi, ar.mult)
     IN /\ ar' = [ar EXCEPT !.called = TRUE, !.dst = r.dst]
        /\ aborted' = ~r.ok
  /\ UNCHANGED <<FLAGS, instance, uses_real_time, wall, cpu, use_real_time,
                 clock, shared, th, pc, bodies, ri, reported>>
  /\ UNCHANGED <<families, fam, spec, benchmarks, bi, hpc, rp, thread_stats>>

NextAddRange == CallAddRange

SpecAddRange == InitAddRange /\ [][NextAddRange]_vars

\* A family as its constructor leaves it.
Family(name, index) ==
  [NoBenchmark EXCEPT !.live = TRUE, !.name_ = name,
                      !.registration_index_ = index]

\* The registries of three programs, once their static registration is over:
\* one family without axes; a family with two arguments and a family with a
\* thread count; a destroyed family followed by a family with ThreadPerCpu.
Programs ==
  { [ families |-> <<1>>,
      fam |-> [f \in FamilyIds |->
                 IF f = 1 THEN Family(<<"A", "a", "A">>, 0) ELSE NoBenchmark] ],
    [ families |-> <<1, 2>>,
      fam |-> [f \in FamilyIds |->
                 IF f = 1
                   THEN Arg(Arg(Family(<<"A", "a", "A">>, 0), 9).b, 0).b
                 ELSE IF f = 2 THEN Threads(Family(<<"C">>, 1), 2).b
                 ELSE NoBenchmark] ],
    [ families |-> <<NULL, 2>>,
      fam |-> [f \in FamilyIds |->
                 IF f = 2 THEN ThreadPerCpu(Family(<<"A", "a", "B">>, 1)).b
                 ELSE NoBenchmark] ] }

\* A program whose families are registered and that has run nothing yet.
InitProgram ==
  /\ instance = [threads |-> 0, multithreaded |-> FALSE]
  /\ uses_real_time \in BOOLEAN
  /\ wall = WallEpoch
  /\ cpu = 0
  /\ use_real_time = FALSE
  /\ clock = [type_ |-> CPU_TIME, approx_time_ |-> 0]
  /\ shared = NewSharedState(0)
  /\ th = <<>>
  /\ pc = <<>>
  /\ bodies = <<>>
  /\ ri = 0
  /\ reported = [called |-> FALSE, runs |-> <<>>]
  /\ aborted = FALSE
  /\ thread_stats = <<>>
  /\ rp = <<>>
  /\ \E p \in Programs : families = p.families /\ fam = p.fam
  /\ spec = <<>>
  /\ benchmarks = <<>>
  /\ bi = 0
  /\ ar = NoAddRange

\* RunInstance is on the stack: its steps and those of the routine it runs
\* inline are taken only then.
InRunInstance == hpc = "RunInstance"

\* main: the flags are parsed, then RunSpecifiedBenchmarks is called.
InitMain ==
  /\ FLAGS \in { [DefaultFlags EXCEPT !.benchmark_filter = re] :
                   re \in FilterChoices }
  /\ hpc = "RunSpecifiedBenchmarks"
  /\ InitProgram

NextMain ==
  \/ RunSpecifiedBenchmarks
  \/ RunInstanceBegin
  \/ RunInstanceReturn
  \/ InRunInstance /\ Tick
  \/ InRunInstance /\ RunnerRun
  \/ InRunInstance /\ RunnerSkip
  \/ InRunInstance /\ RunnerReturn
  \/ InRunInstance /\ ReportRuns
  \/ InRunInstance /\ \E w \in Workers : KeepRunning(w)

SpecMain == InitMain /\ [][NextMain]_vars

\* A program that calls RunMatchingBenchmarks itself.
InitMatching ==
  /\ FLAGS = DefaultFlags
  /\ hpc = "RunMatchingBenchmarks"
  /\ InitProgram

NextMatching ==
  \/ CallRunMatchingBenchmarks
  \/ RunInstanceBegin
  \/ RunInstanceReturn
  \/ InRunInstance /\ Tick
  \/ InRunInstance /\ RunnerRun
  \/ InRunInstance /\ RunnerSkip
  \/ InRunInstance /\ RunnerReturn
  \/ InRunInstance /\ ReportRuns
  \/ InRunInstance /\ \E w \in Workers : KeepRunning(w)

SpecMatching == InitMatching /\ [][NextMatching]_vars

\* ---------------------------------------------------------------- claims

\* The routine of worker w has had false from KeepRunning and left its loop.
ReturnedFalse(w) == pc[w] \in {"exited", "done"}

\* C1: KeepRunning returns false to a worker only in phase STOPPED, whether the
\* false comes from FinishInterval or from MaybeStop, and a worker is in phase
\* STOPPED only when it has had its one false: the routine has left its loop
\* exactly when its State is STOPPED.
C1_FalseExactlyWhenStopped ==
  \A w \in Workers : ReturnedFalse(w) <=> th[w].state_ = STATE_STOPPED

\* Two workers have both had false: the last to stop from FinishInterval, the
\* other from MaybeStop.
C1_Witness ==
  /\ shared.threads = 2
  /\ \A w \in Workers : ReturnedFalse(w)
  /\ \E w \in Workers : pc[w] = "exited"

\* C2: the vector ReportRuns receives for an instance with T threads and R
\* repetitions has between R and R*T + 2 elements (so 3 for T = 1, R = 3).
C2_ReportedLength ==
  reported.called =>
    /\ Len(reported.runs) >= FLAGS.benchmark_repetitions
    /\ Len(reported.runs) <= FLAGS.benchmark_repetitions * instance.threads + 2

\* C3: the iterations of every RunData equal the number of times KeepRunning
\* returned true to the routine during the interval.
C3_IterationsCountTrueReturns ==
  \A i \in 1 .. Len(shared.runs) :
    shared.runs[i].iterations = shared.runs[i].true_returns

\* C4: every RunData in shared.runs has iterations >= 1 and
\* real_accumulated_time >= 0.
C4_RunDataPositive ==
  \A i \in 1 .. Len(shared.runs) :
    /\ shared.runs[i].iterations >= 1
    /\ shared.runs[i].real_accumulated_time >= 0

\* C5: with repetitions = 1 and threads = 1, when the loop has ended and the
\* total has not exceeded max_iters, the one reported RunData has at least
\* min_iters iterations.
C5_MinItersMeasured ==
  ( /\ FLAGS.benchmark_repetitions = 1
    /\ instance.threads = 1
    /\ ~instance.multithreaded
    /\ reported.called
    /\ th[0].total_iterations_ <= FLAGS.benchmark_max_iters )
  => /\ Len(reported.runs) = 1
     /\ reported.runs[1].iterations >= FLAGS.benchmark_min_iters

\* C6: when ReportRuns is called for an instance, the routine has been invoked
\* once for each of its T workers and each invocation has returned, with or
\* without a thread-count axis.
C6_AllWorkersRanBeforeReport ==
  reported.called => \A w \in Workers : pc[w] = "done"

\* C7: no worker is past STARTING (running its first interval or beyond)
\* before shared.starting == threads.
C7_StartBarrier ==
  \A w \in Workers :
    th[w].state_ \in {STATE_RUNNING, STATE_STOPPING, STATE_STOPPED}
      => shared.starting = shared.threads

\* C8: shared.runs holds no RunData while shared.starting < threads.
C8_NoRunBeforeAllStarting ==
  shared.runs # <<>> => shared.starting = shared.threads

\* The workers that have incremented starting, and those that have
\* incremented stopping.
Started == {w \in Workers : th[w].state_ # STATE_INITIAL}
DecidedToStop == {w \in Workers : th[w].state_ \in {STATE_STOPPING, STATE_STOPPED}}

\* C9: starting and stopping stay within 0 .. threads and never decrease, and
\* each worker increments each at most once: starting counts the workers that
\* have left INITIAL, stopping those that have entered STOPPING or STOPPED, and
\* no worker comes back from either.
C9_Counters ==
  /\ [](/\ shared.starting \in 0 .. shared.threads
        /\ shared.stopping \in 0 .. shared.threads
        /\ shared.starting = Cardinality(Started)
        /\ shared.stopping = Cardinality(DecidedToStop))
  /\ [][/\ shared'.starting >= shared.starting
        /\ shared'.stopping >= shared.stopping
        /\ shared'.starting - shared.starting <= 1
        /\ shared'.stopping - shared.stopping <= 1
        /\ Started \subseteq Started'
        /\ DecidedToStop \subseteq DecidedToStop']_vars

\* All workers of a two-thread instance have started and have decided to stop.
C9_Witness ==
  /\ shared.threads = 2
  /\ shared.starting = 2
  /\ shared.stopping = 2

\* C10: a worker has had false only when stopping == threads; a worker in
\* STOPPING is still in its loop, and (unless a CHECK has ended the process) a
\* KeepRunning call of its that reaches MaybeStop returns, with true while
\* stopping < threads and with false once stopping == threads.
C10_StopProtocol ==
  \A w \in Workers :
    /\ ReturnedFalse(w) => shared.stopping = shared.threads
    /\ th[w].state_ = STATE_STOPPING =>
         /\ pc[w] = "loop"
         /\ (~aborted /\ HasReached(Deadline(th[w]))) =>
              /\ ENABLED KeepRunning(w)
              /\ IF shared.stopping < shared.threads
                   THEN ~ENABLED (KeepRunning(w) /\ pc'[w] # "loop")
                   ELSE ~ENABLED (KeepRunning(w) /\ pc'[w] # "exited")

\* A worker that stopped first is polling MaybeStop and the last worker has
\* now decided to stop: its next MaybeStop is the one that returns false.
C10_Witness ==
  \E w \in Workers :
    /\ th[w].state_ = STATE_STOPPING
    /\ pc[w] = "loop"
    /\ shared.stopping = shared.threads

\* The families that are registered and not destroyed.
Live == {f \in FamilyIds : fam[f].live}

\* C20: after any sequence of registrations and deregistrations every live
\* family is in the slot its registration_index_ names, no two live families
\* share an index, the last slot of a non-empty registry is not null, and the
\* destructor's check families[registration_index_] == this cannot fail.
C20_IndexStability ==
  /\ \A f \in Live :
       /\ fam[f].registration_index_ + 1 \in DOMAIN families
       /\ families[fam[f].registration_index_ + 1] = f
  /\ \A f, g \in Live :
       f # g => fam[f].registration_index_ # fam[g].registration_index_
  /\ families # <<>> => families[Len(families)] # NULL
  /\ \A f \in Live : ~ENABLED (BenchmarkDtor(f) /\ aborted')

\* A family was destroyed and its slot nulled while a later family lives on,
\* and a further family was registered behind it.
C20_Witness ==
  /\ Len(families) = 3
  /\ families[1] = NULL
  /\ families[2] # NULL
  /\ families[3] # NULL

\* A mutator call that leaves r on the family object b failed a check and
\* added nothing.
FatalNoChange(b, r) == ~r.ok /\ r.b = b

\* C19: Range, DenseRange, RangePair and ThreadRange with a negative lower
\* bound or hi < lo, and Threads and ThreadRange with a thread count that is
\* not positive, fail a check, and the failing call adds no value to an axis or
\* to the thread counts of the family: whatever the family holds when the call
\* is made, the call fails, and the step in which a check fails leaves every
\* family and the registry as they were.
C19_InvalidArgumentsFatal ==
  /\ [](\A f \in Live :
          LET b == fam[f] IN
          /\ \A r \in RangeChoices :
               (r[1] < 0 \/ r[2] < r[1]) =>
                 /\ FatalNoChange(b, Range(b, r[1], r[2]))
                 /\ FatalNoChange(b, DenseRange(b, r[1], r[2]))
                 /\ \A r2 \in RangeChoices :
                      /\ FatalNoChange(b, RangePair(b, r[1], r[2], r2[1], r2[2]))
                      /\ FatalNoChange(b, RangePair(b, r2[1], r2[2], r[1], r[2]))
          /\ \A t, u \in ThreadChoices :
               /\ t <= 0 => FatalNoChange(b, Threads(b, t))
               /\ (t <= 0 \/ u < t) => FatalNoChange(b, ThreadRange(b, t, u)))
  /\ [][(aborted' /\ ~aborted) => (fam' = fam /\ families' = families)]_vars

\* A check of a mutator has failed for a family that already had values on an
\* axis and thread counts.
C19_Witness ==
  /\ aborted
  /\ hpc = "registration"
  /\ \E f \in Live : fam[f].rangeX_ # <<>> /\ fam[f].thread_counts_ # <<>>

\* The axes of the expansion: the indices of the values of an axis, or the one
\* index kNoRange when the axis is empty; the thread counts, or <<1>>.
AxisIndices(axis) == IF axis = <<>> THEN <<kNoRange>> ELSE [k \in 1 .. Len(axis) |-> k - 1]
ThreadCounts(b) ==
  IF b.thread_counts_ = <<>> THEN <<1>>
  ELSE [k \in 1 .. Len(b.thread_counts_) |->
          IF b.thread_counts_[k] = kNumCpuMarker THEN NumCPUs ELSE b.thread_counts_[k]]

\* The instances of family f among the enumerated ones, in their order.
InstancesOf(f) == SelectSeq(benchmarks, LAMBDA i : i.bm = f)

\* The instance at position p (from 0) of the expansion of family f is the one
\* of the p-th element of X' x Y' x Th', X index first, thread count last.
IsElementOfProduct(i, b, p) ==
  LET X == AxisIndices(b.rangeX_)
      Y == AxisIndices(b.rangeY_)
      Th == ThreadCounts(b)
      xi == X[(p \div (Len(Y) * Len(Th))) + 1]
      yi == Y[((p \div Len(Th)) % Len(Y)) + 1]
  IN /\ i.rangeXset = (xi # kNoRange)
     /\ i.rangeXset => i.rangeX = b.rangeX_[xi + 1]
     /\ i.rangeYset = (yi # kNoRange)
     /\ i.rangeYset => i.rangeY = b.rangeY_[yi + 1]
     /\ i.threads = Th[(p % Len(Th)) + 1]

\* C16: a matching family expands to exactly one instance per element of
\* X' x Y' x Th' (X' the first-axis values or "none", Y' the second-axis values
\* or "none", Th' the thread counts or {1}), ordered by X index, then Y index,
\* then thread-count index, whatever mutators built the family.
C16_ExpansionIsProduct ==
  (hpc = "found" /\ spec # <<>> /\ regcomp(spec)) =>
    \A f \in Live :
      regexec(spec, fam[f].name_) =>
        LET b == fam[f]
            found == InstancesOf(f)
        IN /\ Len(found) = Len(AxisIndices(b.rangeX_)) * Len(AxisIndices(b.rangeY_))
                             * Len(ThreadCounts(b))
           /\ \A p \in 0 .. (Len(found) - 1) : IsElementOfProduct(found[p + 1], b, p)

\* A family with two first-axis values and two second-axis values was
\* enumerated: four instances.
C16_Witness ==
  /\ hpc = "found"
  /\ \E f \in Live :
       /\ Len(fam[f].rangeX_) = 2
       /\ Len(fam[f].rangeY_) = 2
       /\ Len(InstancesOf(f)) = 4

\* The decorations of an instance name: "/" and the axis value rendered by
\* ToBinaryStringFullySpecified (si), and "/threads:" and the thread count.
AxisDecoration(set, value) ==
  IF set THEN <<"/">> \o ToBinaryStringFullySpecified(value) ELSE <<>>
ThreadsDecoration(threads) ==
  <<"/", "t", "h", "r", "e", "a", "d", "s", ":">> \o Digits(threads)

\* C17 as stated: the instance name is the family name followed by "/"+si(x)
\* for a set first-axis value, "/"+si(y) for a set second-axis value, and
\* "/threads:T" when T > 1; when T = 1 and no axes were set it is the family
\* name.
C17_NameThreadsAboveOne ==
  \A k \in 1 .. Len(benchmarks) :
    LET i == benchmarks[k] IN
    /\ i.name = fam[i.bm].name_ \o AxisDecoration(i.rangeXset, i.rangeX)
                                \o AxisDecoration(i.rangeYset, i.rangeY)
                                \o (IF i.threads > 1 THEN ThreadsDecoration(i.threads)
                                    ELSE <<>>)
    /\ (i.threads = 1 /\ ~i.rangeXset /\ ~i.rangeYset) => i.name = fam[i.bm].name_

\* C17, amended: the instance name is the family name followed by "/"+si(x) for
\* a set first-axis value, "/"+si(y) for a set second-axis value, and
\* "/threads:T" when the family has a thread-count axis, for every T >= 1
\* (T = 1 included); when the family has no thread-count axis and no axes were
\* set it is the family name.
C17_NameThreadsWhenAxis ==
  \A k \in 1 .. Len(benchmarks) :
    LET i == benchmarks[k]
        has_thread_axis == fam[i.bm].thread_counts_ # <<>>
    IN
    /\ i.name = fam[i.bm].name_ \o AxisDecoration(i.rangeXset, i.rangeX)
                                \o AxisDecoration(i.rangeYset, i.rangeY)
                                \o (IF has_thread_axis THEN ThreadsDecoration(i.threads)
                                    ELSE <<>>)
    /\ (~has_thread_axis /\ ~i.rangeXset /\ ~i.rangeYset) => i.name = fam[i.bm].name_

\* Enumerated together: an instance with both axes set of a family registered
\* with Threads(1), named F/x/y/threads:1, and an instance of a family without
\* any axis, named as its family.
C17_Witness ==
  /\ hpc = "found"
  /\ \E k \in 1 .. Len(benchmarks) :
       /\ benchmarks[k].rangeXset /\ benchmarks[k].rangeYset
       /\ benchmarks[k].threads = 1
       /\ fam[benchmarks[k].bm].thread_counts_ = <<1>>
  /\ \E k \in 1 .. Len(benchmarks) : benchmarks[k].name = fam[benchmarks[k].bm].name_

\* C13: the filter is matched against the family name only: the instances of a
\* live family are all selected when its name matches the expression and none
\* is when it does not, whatever "/K" and "/threads:N" add to their names; a
\* slot whose family was deleted contributes nothing.
C13_FilterOnFamilyName ==
  (hpc = "found" /\ spec # <<>> /\ regcomp(spec)) =>
    /\ \A f \in Live :
         IF regexec(spec, fam[f].name_)
           THEN /\ InstancesOf(f) # <<>>
                /\ Len(InstancesOf(f)) = Len(Expand(fam[f], f))
           ELSE InstancesOf(f) = <<>>
    /\ \A k \in 1 .. Len(benchmarks) : benchmarks[k].bm \in Live

\* The registry has a deleted slot and two live families with axes; the filter
\* matches the name of one, whose instances are all selected, and not the name
\* of the other, though it matches the decorated names of its instances.
C13_Witness ==
  /\ hpc = "found"
  /\ regcomp(spec)
  /\ \E k \in 1 .. Len(families) : families[k] = NULL
  /\ \E f, g \in Live :
       /\ regexec(spec, fam[f].name_)
       /\ Len(InstancesOf(f)) >= 2
       /\ ~regexec(spec, fam[g].name_)
       /\ \E j \in 1 .. Len(Expand(fam[g], g)) : regexec(spec, Expand(fam[g], g)[j].name)

\* The powers of mult that a 32-bit int holds, ascending, from p on.
RECURSIVE PowersFrom(_, _)
PowersFrom(p, mult) ==
  IF p > INT32_MAX \div mult THEN <<p>> ELSE <<p>> \o PowersFrom(p * mult, mult)

\* C18: for 0 <= lo <= hi and multiplier k in {2, 8}, AddRange appends lo, then
\* every power k^i with lo < k^i < hi in ascending order, then hi if hi # lo;
\* no power of k strictly between lo and hi is left out, also for hi near the
\* 32-bit maximum.
C18_GeometricRange ==
  (ar.called /\ 0 <= ar.lo /\ ar.lo <= ar.hi) =>
    ar.dst = <<ar.lo>>
             \o SelectSeq(PowersFrom(1, ar.mult), LAMBDA p : ar.lo < p /\ p < ar.hi)
             \o (IF ar.hi # ar.lo THEN <<ar.hi>> ELSE <<>>)

\* The call c of a setter by worker w ends in a fatal check and leaves the
\* thread's counters and the shared label as they were.
SetterFails(c) ==
  /\ ENABLED c
  /\ ~ENABLED (c /\ ~(aborted' /\ thread_stats' = thread_stats
                               /\ shared'.label = shared.label))

\* The call c of a setter succeeds.
SetterSucceeds(c) ==
  /\ ENABLED c
  /\ ~ENABLED (c /\ aborted')

NoBenchmarkRan ==
  /\ \A k \in DOMAIN rp : rp[k].call # "ReportRuns"
  /\ \A w \in DOMAIN pc : pc[w] = "idle"

\* C12: with an empty benchmark_filter RunSpecifiedBenchmarks runs no
\* benchmark: no routine is invoked and no instance is reported.
C12_EmptyFilterRunsNothing ==
  FLAGS.benchmark_filter = <<>> => NoBenchmarkRan

\* The expression s matches the name of a family in the registry.
MatchesSomeFamily(s) ==
  /\ regcomp(s)
  /\ \E i \in DOMAIN families :
       families[i] # NULL /\ regexec(s, fam[families[i]].name_)

\* RunMatchingBenchmarks has been called.
RunMatchingBenchmarksCalled == hpc \in {"loop", "RunInstance", "returned"}

\* C14 as stated: RunMatchingBenchmarks with a non-empty filter that matches
\* no family of the registry makes no call of the reporter, neither
\* ReportContext nor ReportRuns.
C14_NoMatchIsSilent ==
  (RunMatchingBenchmarksCalled /\ spec # <<>> /\ ~MatchesSomeFamily(spec))
    => rp = <<>>

\* C14, amended: RunMatchingBenchmarks with a non-empty filter that matches no
\* family of the registry selects no instance, calls ReportContext once and
\* returns: ReportRuns is not called and no routine is entered.
C14_NoMatchReportsContextOnly ==
  (RunMatchingBenchmarksCalled /\ spec # <<>> /\ ~MatchesSomeFamily(spec))
    => /\ benchmarks = <<>>
       /\ Len(rp) = 1
       /\ rp[1].call = "ReportContext"
       /\ hpc = "returned"
       /\ NoBenchmarkRan

\* A well-formed filter that matches none of the live families was run with
\* a reporter that lets the run proceed.
C14_Witness ==
  /\ RunMatchingBenchmarksCalled
  /\ spec # <<>>
  /\ regcomp(spec)
  /\ ~MatchesSomeFamily(spec)
  /\ \E i \in DOMAIN families : families[i] # NULL
  /\ Len(rp) = 1
  /\ rp[1].returned

\* C15: once RunMatchingBenchmarks has been called with a non-empty filter,
\* the reporter's first call is its one ReportContext and every later call is
\* a ReportRuns; when ReportContext returned false there is no later call and
\* no routine is entered; when it returned true the k-th ReportRuns is for the
\* k-th instance FindBenchmarks selected, one for each instance RunInstance
\* was called for, and it is made when every worker of that instance has run
\* its routine to the end.
C15_ReporterProtocol ==
  (RunMatchingBenchmarksCalled /\ spec # <<>>) =>
    /\ Len(rp) >= 1
    /\ rp[1].call = "ReportContext"
    /\ \A k \in 2 .. Len(rp) :
         /\ rp[k].call = "ReportRuns"
         /\ k - 1 <= Len(benchmarks)
         /\ rp[k].instance = benchmarks[k - 1]
    /\ IF rp[1].returned
         THEN /\ Len(rp) = 1 + bi + (IF hpc = "RunInstance" /\ reported.called
                                       THEN 1 ELSE 0)
              /\ hpc = "returned" => bi = Len(benchmarks)
              /\ (hpc = "RunInstance" /\ reported.called)
                   => \A w \in Workers : pc[w] = "done"
         ELSE /\ Len(rp) = 1
              /\ hpc = "returned"
              /\ \A w \in DOMAIN pc : pc[w] = "idle"

\* The values of s are found in t, in the order they have in s.
RECURSIVE IsSubsequence(_, _)
IsSubsequence(s, t) ==
  IF s = <<>> THEN TRUE
  ELSE IF t = <<>> THEN FALSE
  ELSE IF Head(s) = Head(t) THEN IsSubsequence(Tail(s), Tail(t))
  ELSE IsSubsequence(s, Tail(t))

\* C30: a call of Arg, Range, DenseRange, ArgPair or RangePair on a family only
\* adds to its axes: every value rangeX_ and rangeY_ held before the call is
\* still there after it, in the same relative order.
C30_MutatorsOnlyAdd ==
  [][\A f \in FamilyIds :
       (fam[f].live /\ fam'[f].live) =>
         /\ IsSubsequence(fam[f].rangeX_, fam'[f].rangeX_)
         /\ IsSubsequence(fam[f].rangeY_, fam'[f].rangeY_)]_vars

\* Worker w's next KeepRunning call reaches FinishInterval and finds the
\* interval too short.
TooShort(w) ==
  /\ ~aborted
  /\ pc[w] = "loop"
  /\ th[w].state_ = STATE_RUNNING
  /\ HasReached(Deadline(th[w]))
  /\ th[w].iterations_ < FLAGS.benchmark_min_iters \div FLAGS.benchmark_repetitions
  /\ th[w].interval_micros_ < kMaxIntervalMicros

AboutToClose(w) ==
  /\ ~aborted
  /\ pc[w] = "loop"
  /\ th[w].state_ = STATE_RUNNING
  /\ HasReached(Deadline(th[w]))
  /\ ~TooShort(w)

\* C22: the runs in shared.runs are the completed non-continuation intervals
\* (a close pushes one exactly when the interval is not a continuation, and
\* nothing else changes their number); after a close the worker runs another
\* interval exactly when its total is below min_iters, or is at most max_iters
\* with fewer than benchmark_repetitions such runs; and once min_iters is
\* satisfied there are never more than benchmark_repetitions of them.
C22_RunAnotherInterval ==
  /\ []((\A w \in Workers :
            th[w].total_iterations_ >= FLAGS.benchmark_min_iters)
          => Len(shared.runs) <= FLAGS.benchmark_repetitions)
  /\ [][\A w \in Workers :
          IF AboutToClose(w) /\ th'[w] # th[w]
            THEN /\ Len(shared'.runs) = Len(shared.runs)
                       + (IF th[w].is_continuation_ THEN 0 ELSE 1)
                 /\ (th'[w].state_ = STATE_RUNNING) <=>
                      \/ th'[w].total_iterations_ < FLAGS.benchmark_min_iters
                      \/ /\ th'[w].total_iterations_ <= FLAGS.benchmark_max_iters
                         /\ Len(shared'.runs) < FLAGS.benchmark_repetitions
                 /\ th'[w].state_ = STATE_RUNNING =>
                      /\ pc'[w] = "loop"
                      /\ th'[w].is_continuation_
                      /\ th'[w].stop_time_micros_
                           = NowMicros(clock.type_) + th[w].interval_micros_
            ELSE Len(shared'.runs) = Len(shared.runs)]_vars

\* A worker whose total satisfies min_iters and is within max_iters is in
\* another interval because the runs are fewer than the repetitions asked for.
C22_Witness ==
  \E w \in Workers :
    /\ th[w].state_ = STATE_RUNNING
    /\ th[w].is_continuation_
    /\ th[w].total_iterations_ >= FLAGS.benchmark_min_iters
    /\ th[w].total_iterations_ <= FLAGS.benchmark_max_iters
    /\ shared.runs # <<>>
    /\ Len(shared.runs) < FLAGS.benchmark_repetitions

\* Worker w leaves STATE_INITIAL in this step: its StartRunning.
StartsNow(w) ==
  th[w].state_ = STATE_INITIAL /\ th'[w].state_ # STATE_INITIAL

\* C25: each worker that starts raises shared.starting by one, so the worker
\* whose increment makes it equal to threads is one worker and its step happens
\* once; in that step, and in no other step of the instance, the clock is
\* initialised again (InitType, with REAL_TIME if UseRealTime was called and
\* CPU_TIME otherwise). Until then the clock has the type of its constructor.
C25_OneLastStarter ==
  /\ [](/\ shared.starting = Cardinality({w \in Workers :
                                            th[w].state_ # STATE_INITIAL})
        /\ shared.starting < shared.threads => clock.type_ = CPU_TIME)
  /\ [][/\ \A w \in Workers :
             StartsNow(w) =>
               /\ shared'.starting = shared.starting + 1
               /\ \A v \in Workers \ {w} : ~StartsNow(v)
               /\ IF shared'.starting = shared.threads
                    THEN clock' = InitType(IF use_real_time THEN REAL_TIME
                                                           ELSE CPU_TIME)
                    ELSE clock' = clock
        /\ (\A w \in Workers : ~StartsNow(w)) =>
             /\ shared'.starting = shared.starting
             /\ clock'.type_ = clock.type_]_vars

\* The second of two workers has started after the first and the clock was
\* initialised again, to REAL_TIME, when the first had closed an interval.
C25_Witness ==
  /\ shared.threads = 2
  /\ shared.starting = 2
  /\ clock.type_ = REAL_TIME
  /\ shared.runs # <<>>

\* C26: when a worker closes a continuation and overwrites shared.runs.back(),
\* shared.runs is not empty and its last record is that worker's own (it
\* carries the worker's thread index), whatever the other workers did since.
C26_OverwritesOwnRecord ==
  [][\A w \in Workers :
       (AboutToClose(w) /\ th[w].is_continuation_ /\ th'[w] # th[w]) =>
         /\ shared.runs # <<>>
         /\ shared.runs[Len(shared.runs)].thread_index = w]_vars

\* Worker w takes a step: a KeepRunning call of its routine that changes
\* anything changes its State or where its routine is.
Acts(w) == th'[w] # th[w] \/ pc'[w] # pc[w]

\* C27: a KeepRunning call of a worker in STATE_STOPPING leaves shared.runs,
\* shared.stopping and the worker's total_iterations_ as they were and leaves
\* the worker in STOPPING or moves it to STOPPED: it takes the fast path or
\* goes to MaybeStop, never to FinishInterval.
C27_StoppingWorkerIsLoad ==
  [][\A w \in Workers :
       (th[w].state_ = STATE_STOPPING /\ Acts(w)) =>
         /\ shared'.runs = shared.runs
         /\ shared'.stopping = shared.stopping
         /\ th'[w].total_iterations_ = th[w].total_iterations_
         /\ th'[w].state_ \in {STATE_STOPPING, STATE_STOPPED}
         /\ th'[w].state_ = STATE_STOPPED <=> pc'[w] = "exited"]_vars

\* A worker that was in STOPPING while the other was still measuring has had
\* its false from MaybeStop; its record is in shared.runs as it pushed it.
C27_Witness ==
  \E w \in Workers :
    /\ shared.threads = 2
    /\ th[w].state_ = STATE_STOPPED
    /\ pc[w] = "exited"
    /\ \E v \in Workers \ {w} : th[v].state_ = STATE_STOPPED
                                    /\ th[v].total_iterations_ > 0
    /\ Len(shared.runs) = 2

\* The order of the phases.
PhaseRank(state) ==
  CASE state = STATE_INITIAL -> 0
    [] state = STATE_STARTING -> 1
    [] state = STATE_RUNNING -> 2
    [] state = STATE_STOPPING -> 3
    [] state = STATE_STOPPED -> 4

\* C28: a worker's phase never moves backward, and its moves are INITIAL to
\* RUNNING (through STARTING, which StartRunning enters and leaves under the
\* mutex), RUNNING to STOPPING or STOPPED, and STOPPING to STOPPED; a routine
\* that is still in its loop, so that it may call KeepRunning, is never in
\* STARTING or STOPPED, so that the CHECK(false) of the dispatch is not reached.
C28_PhasesMoveForward ==
  /\ [](\A w \in Workers :
          /\ th[w].state_ # STATE_STARTING
          /\ pc[w] = "loop" => th[w].state_ # STATE_STOPPED
          /\ pc[w] \in {"exited", "done"} => th[w].state_ = STATE_STOPPED)
  /\ [][\A w \in Workers :
          /\ PhaseRank(th'[w].state_) >= PhaseRank(th[w].state_)
          /\ th'[w].state_ # th[w].state_ =>
               \/ th[w].state_ = STATE_INITIAL /\ th'[w].state_ = STATE_RUNNING
               \/ th[w].state_ = STATE_RUNNING
                    /\ th'[w].state_ \in {STATE_STOPPING, STATE_STOPPED}
               \/ th[w].state_ = STATE_STOPPING /\ th'[w].state_ = STATE_STOPPED
          /\ (th[w].state_ = STATE_RUNNING /\ th'[w].state_ = STATE_STOPPED)
               => shared'.stopping = shared.threads]_vars

\* Of two workers one went from RUNNING to STOPPING and then to STOPPED, the
\* other from RUNNING to STOPPED; both have left their loops.
C28_Witness ==
  /\ shared.threads = 2
  /\ shared.stopping = 2
  /\ \A w \in Workers : th[w].state_ = STATE_STOPPED /\ pc[w] = "done"

\* The iterations the records of worker w in runs, from the k-th on, hold.
RECURSIVE RecordedIterations(_, _, _)
RecordedIterations(runs, w, k) ==
  IF k > Len(runs) THEN 0
  ELSE (IF runs[k].thread_index = w THEN runs[k].iterations ELSE 0)
       + RecordedIterations(runs, w, k + 1)

\* C29: a worker's total_iterations_ equals the iterations its closed
\* intervals recorded, each counted once: with one worker, the iterations in
\* the records of shared.runs, where a continued interval's record holds the
\* iterations of the interval and of its continuations together.
C29_TotalCountsOnce ==
  \A w \in Workers :
    th[w].total_iterations_ = RecordedIterations(shared.runs, w, 1)

\* A KeepRunning call of worker w's routine changes its State.
Calls(w) == pc[w] = "loop" /\ pc'[w] # "paused" /\ th'[w] # th[w]

\* C24: pause_time_ is the sum of the pause/resume cycles since the interval's
\* recorded start: ResumeTiming adds the time since the PauseTiming before it,
\* a step that records a start (StartRunning, or the retry of an interval that
\* was too short) sets it to zero, so that what was paused before the start is
\* dropped, and no other step changes it or the recorded start; and the
\* real_accumulated_time of a closed interval is the wall time since the
\* recorded start less pause_time_, a positive time.
C24_PauseExcluded ==
  [][\A w \in Workers :
       /\ (pc[w] = "loop" /\ pc'[w] = "paused") =>
            th'[w] = [th[w] EXCEPT !.start_pause_ = wall]
       /\ (pc[w] = "paused" /\ pc'[w] = "loop") =>
            th'[w] = [th[w] EXCEPT !.pause_time_ =
                                      th[w].pause_time_ + (wall - th[w].start_pause_)]
       /\ (StartsNow(w) \/ (TooShort(w) /\ Calls(w))) =>
            /\ th'[w].start_time_ = wall
            /\ th'[w].pause_time_ = 0
       /\ (AboutToClose(w) /\ Calls(w)) =>
            LET data == shared'.runs[Len(shared'.runs)] IN
            /\ data.real_accumulated_time
                 = (wall - th[w].start_time_) - th[w].pause_time_
            /\ data.real_accumulated_time > 0
            /\ th'[w].start_time_ = th[w].start_time_
            /\ th'[w].pause_time_ = th[w].pause_time_
       /\ (pc[w] = pc'[w] /\ ~StartsNow(w) /\ ~(TooShort(w) /\ Calls(w))) =>
            /\ th'[w].start_time_ = th[w].start_time_
            /\ th'[w].pause_time_ = th[w].pause_time_]_vars

\* An interval was closed after three steps of the clock of which the routine
\* had paused two: one step of real time is accumulated.
C24_Witness ==
  \E w \in Workers :
    /\ shared.runs # <<>>
    /\ th[w].pause_time_ = 2 * TickMicros
    /\ wall - th[w].start_time_ = 3 * TickMicros
    /\ shared.runs[Len(shared.runs)].real_accumulated_time = TickMicros

\* An interval of some worker ended without an iteration: it was tried again
\* for twice as long, or it was closed with iterations = 0.
IntervalWithoutIteration ==
  \/ \E w \in Workers :
       th[w].interval_micros_
         # FLAGS.benchmark_min_time \div FLAGS.benchmark_repetitions
  \/ \E k \in DOMAIN shared.runs : shared.runs[k].iterations = 0

\* A CHECK ended the process in FinishInterval: a worker closed an interval in
\* which no time had elapsed.
ClosedWithoutTime ==
  /\ aborted
  /\ \E w \in Workers :
       /\ pc[w] = "loop"
       /\ th[w].state_ = STATE_RUNNING
       /\ wall = th[w].start_time_

====
